---------------------------- MODULE Spec2Model ----------------------------
(***************************************************************************)
(* State-machine model of the playFi trading research front end:           *)
(*   src/src/App.tsx                       TradingApp state and handlers   *)
(*   src/src/services/api.ts               price, strategy, forecast,      *)
(*                                         backtest and export services    *)
(*   src/src/components/charts/TradingChart.tsx   chartData memo, types    *)
(*   src/src/components/strategy/ForecastResult.tsx   forecast card        *)
(*   src/src/components/strategy/StrategySelector.tsx   strategies, search *)
(* The forecast engine and the backtest simulator run behind the API and   *)
(* are modelled from the specification (sections 4.3 to 4.5).              *)
(*                                                                         *)
(* Numbers.  Prices are integers (minor currency units).  A quotient that  *)
(* JavaScript computes in floating point is kept exact as a record         *)
(* [num, den]; optional numbers are <<>> (undefined) or <<v>>.             *)
(***************************************************************************)
EXTENDS Integers, Sequences, FiniteSets, Bags, TLC

VARIABLES
    selectedAsset,      \* App.tsx:31  useState<Asset>()
    selectedStrategy,   \* App.tsx:32  useState<Strategy>()
    selectedTimeframe,  \* App.tsx:33  useState<TimeFrame>('1d')
    forecast,           \* App.tsx:34  useState<ForecastType>()
    chartData,          \* App.tsx:35  useState<ChartData[]>([])
    isLoadingForecast,  \* App.tsx:36
    isLoadingChart,     \* App.tsx:37
    chartRequests,      \* getHistoricalData promises not yet settled
    forecastRequests,   \* generateForecast promises not yet settled
    priceData,          \* App.tsx:56  the array the last answered load handed to the handler
    received,           \* history: the items of that array when getHistoricalData returned it
    chartError,         \* App.tsx:70  the load that last reached the catch branch, if any
    renderError,        \* an exception thrown while rendering the tree
    chartSource,        \* history: the request whose answer chartData holds
    exportRequests,     \* App.tsx:104  export promises not yet settled
    download,           \* App.tsx:105-111  the file the browser was last told to save
    strategies,         \* StrategySelector.tsx:57  useState<Strategy[]>([])
    isLoading,          \* StrategySelector.tsx:58
    selectedType,       \* StrategySelector.tsx:59  useState<string>('all')
    strategyRequests,   \* getStrategies promises not yet settled
    effectAsset,        \* StrategySelector.tsx:76  the selectedAsset the effect last ran for
    strategiesSource,   \* history: the request whose answer strategies holds
    sim,                \* the backtest runs of the server behind POST /backtest
    backtestResults,    \* api.ts:107-118  what runBacktest has returned to each caller
    backtestConfig,     \* README.md:117  the parameters each caller configured for its run
    showIndicators,     \* App.tsx:38-45
    searchQuery,        \* StrategySelector.tsx:239  AssetSearch useState('')
    searchResults,      \* StrategySelector.tsx:240
    searchLoading,      \* StrategySelector.tsx:241  AssetSearch isLoading
    showResults,        \* StrategySelector.tsx:242
    searchRequests,     \* searchAssets promises not yet settled
    debounceTimer,      \* StrategySelector.tsx:245  the pending call of the debounced search
    searchSource,       \* history: the query whose answer searchResults holds
    lastSubmitted       \* history: the query the debounced search last ran with

appVars == <<selectedAsset, selectedStrategy, selectedTimeframe, forecast, chartData,
             isLoadingForecast, isLoadingChart, chartRequests, forecastRequests,
             priceData, received, chartError, renderError>>
exportVars == <<exportRequests, download>>
selectorVars == <<strategies, isLoading, selectedType, strategyRequests, effectAsset,
                  strategiesSource>>
backtestVars == <<sim, backtestResults>>
searchVars == <<searchQuery, searchResults, searchLoading, showResults, searchRequests,
                debounceTimer, searchSource, lastSubmitted>>

vars == <<appVars, chartSource, exportVars, selectorVars, backtestVars, backtestConfig,
          showIndicators, searchVars>>

-----------------------------------------------------------------------------
(* Bounds of the model *)

MaxLen == 51        \* longest price series the data feed returns
MaxInFlight == 1    \* most chart loads outstanding at once in the application spec
MaxFeedLen == 1     \* longest series in the small feed of the application spec
MaxBars == 3        \* longest price series a backtest runs over
MaxPairBars == 2    \* longest price series when two backtests overlap
MaxExports == 1     \* most exports outstanding at once
MaxForecasts == 1   \* most forecast requests outstanding at once in the forecast spec
MaxStrategies == 2  \* longest strategy list GET /strategies answers
MaxLoads == 2       \* most chart loads outstanding at once in the chart spec
MaxOvershoot == 1   \* how far (in hundreds) an ML score may leave the range 0..100
MaxRisk == 1        \* largest implied risk of a forecast
MaxQueryLen == 2    \* longest search query typed
MaxSearches == 2    \* most asset searches outstanding at once

(* Program constants *)

Sma20Period == 20
Sma50Period == 50
RsiPlaceholder == 50
MacdPlaceholder == 0
MacdSlowPeriod == 26

-----------------------------------------------------------------------------
(* Values *)

Undefined == <<>>
Some(v) == <<v>>
IsDefined(o) == o # Undefined

Quotient(n, d) == [num |-> n, den |-> d]

Min(a, b) == IF a < b THEN a ELSE b
Max(a, b) == IF a > b THEN a ELSE b

Assets ==
    { [symbol |-> "AAPL", name |-> "Apple Inc.", type |-> "stock"],
      [symbol |-> "BTC-USD", name |-> "Bitcoin", type |-> "crypto"] }

TimeFrames == {"1d", "1h"}

NoAsset == [symbol |-> "", name |-> "", type |-> "none"]

(* JavaScript arrays are objects: ref is the identity, items the elements   *)
(* (index 0 of the code is position 1 of items).                            *)
Array(r, s) == [ref |-> r, items |-> s]
NoArray == Array(0, <<>>)

\* The allocator hands out an identity no live object has.
Alloc(live) == CHOOSE r \in 1..(Cardinality(live) + 1) : r \notin live

-----------------------------------------------------------------------------
(* The data feed: what GET /prices/{symbol}/historical may answer.          *)

WireBar(i, slope, bumpAt) ==
    LET c == 100 + slope * i + (IF i + 1 = bumpAt THEN 3 ELSE 0)
    IN  [timestamp |-> 1000 + 60 * i,
         open |-> c, high |-> c + 2, low |-> c - 1, close |-> c,
         volume |-> 10 + i,
         vwap |-> IF i % 2 = 0 THEN Some(c + 1) ELSE Undefined]

\* A series of len bars rising by slope a bar, bar bumpAt (if any) 3 above the line.
WireSeries(len, slope, bumpAt) ==
    [k \in 1..len |-> WireBar(k - 1, slope, bumpAt)]

\* Series lengths around the lookbacks of the two averages.
FeedLengths ==
    {0, 1} \cup ((Sma20Period - 1)..(Sma20Period + 1)) \cup ((Sma50Period - 1)..MaxLen)

\* Bars at which a generated series may deviate: the ends and the window edges.
BumpPositions(len) ==
    {0} \cup ({1, len, len - Sma20Period + 1, len - Sma50Period + 1, len - 1} \cap (1..len))

PriceFeed ==
    UNION { { WireSeries(len, slope, bumpAt) :
                slope \in {0, 1}, bumpAt \in BumpPositions(len) } :
            len \in FeedLengths }

\* The short answers the application specification draws from.
SmallFeed == { WireSeries(len, 1, 0) : len \in 0..MaxFeedLen }

-----------------------------------------------------------------------------
(* priceService.getHistoricalData, api.ts:27-40 *)

\* new Date(item.timestamp): the wire instant becomes a Date object.
NewDate(t) == [time |-> t]
\* Date.prototype.getTime
GetTime(d) == d.time

\* response.data.map(item => ({...item, timestamp: new Date(item.timestamp)}))
getHistoricalData(wire) ==
    [k \in 1..Len(wire) |-> [timestamp |-> NewDate(wire[k].timestamp)] @@ wire[k]]

-----------------------------------------------------------------------------
(* Array.prototype.slice and reduce as handleAssetSelect uses them *)

\* arr.slice(start, end) for 0 <= start: the copy it returns ...
ArraySlice(items, start, end) == SubSeq(items, start + 1, Min(end, Len(items)))
\* ... and the receiver it leaves behind.
ArraySpliceReceiver(items, start, end) ==
    SubSeq(items, 1, start) \o SubSeq(items, Min(end, Len(items)) + 1, Len(items))
ArraySliceReceiver(items, start, end) == items

\* .reduce((sum, p) => sum + p.close, 0)
RECURSIVE ReduceCloseFrom(_, _, _)
ReduceCloseFrom(items, k, sum) ==
    IF k > Len(items) THEN sum ELSE ReduceCloseFrom(items, k + 1, sum + items[k].close)
ReduceClose(items, sum) == ReduceCloseFrom(items, 1, sum)

(* handleAssetSelect, App.tsx:58-67: the map callback at one index *)

Sma20Lookahead(prices, index) ==
    IF index >= 19
    THEN Some(Quotient(ReduceClose(ArraySlice(prices, index - 18, index + 2), 0), 20))
    ELSE Undefined
Sma20(prices, index) ==
    IF index >= 19
    THEN Some(Quotient(ReduceClose(ArraySlice(prices, index - 19, index + 1), 0), 20))
    ELSE Undefined

Sma50OffByOne(prices, index) ==
    IF index >= 49
    THEN Some(Quotient(ReduceClose(ArraySlice(prices, index - 49, index), 0), 50))
    ELSE Undefined
Sma50(prices, index) ==
    IF index >= 49
    THEN Some(Quotient(ReduceClose(ArraySlice(prices, index - 49, index + 1), 0), 50))
    ELSE Undefined

Indicators(prices, index) ==
    [sma20 |-> Sma20(prices, index),
     sma50 |-> Sma50(prices, index),
     rsi |-> Some(RsiPlaceholder),
     macd |-> Some(MacdPlaceholder),
     vwap |-> prices[index + 1].vwap]

\* ({...price, indicators: {...}})
ChartItem(prices, index) ==
    [indicators |-> Indicators(prices, index)] @@ prices[index + 1]

\* priceData.map((price, index) => ...): the new array ...
ToChartDataDropsWarmup(prices) ==
    [k \in 1..Max(Len(prices) - 19, 0) |-> ChartItem(prices, k + 18)]
ToChartData(prices) ==
    [k \in 1..Len(prices) |-> ChartItem(prices, k - 1)]

\* ... and what the callbacks leave of the array they were handed.
CallbackReceiver(prices, index) ==
    LET a == IF index >= 19
             THEN ArraySliceReceiver(prices, index - 19, index + 1)
             ELSE prices
    IN  IF index >= 49 THEN ArraySliceReceiver(a, index - 49, index + 1) ELSE a

RECURSIVE InputAfterMap(_, _)
InputAfterMap(prices, index) ==
    IF index >= Len(prices)
    THEN prices
    ELSE InputAfterMap(CallbackReceiver(prices, index), index + 1)

(* TradingChart, TradingChart.tsx:100-110: the memoised chartData *)
TradingChartItem(item) ==
    [timestamp |-> GetTime(item.timestamp),
     sma20 |-> item.indicators.sma20,
     sma50 |-> item.indicators.sma50,
     rsi |-> item.indicators.rsi,
     macd |-> item.indicators.macd,
     vwap |-> item.indicators.vwap] @@ item

TradingChartData(data) == [k \in 1..Len(data) |-> TradingChartItem(data[k])]


-----------------------------------------------------------------------------
(* Requests in flight: a bag of request descriptions *)

ChartRequestKinds == [symbol : {a.symbol : a \in Assets}, timeframe : TimeFrames]

EmptyBagOver(kinds) == [k \in kinds |-> 0]
BagAdd(bag, k) == [bag EXCEPT ![k] = @ + 1]
BagRemove(bag, k) == [bag EXCEPT ![k] = @ - 1]
RECURSIVE SumOver(_, _)
SumOver(bag, kinds) ==
    IF kinds = {} THEN 0
    ELSE LET k == CHOOSE x \in kinds : TRUE IN bag[k] + SumOver(bag, kinds \ {k})
BagSize(bag) == SumOver(bag, DOMAIN bag)

-----------------------------------------------------------------------------
(* handleAssetSelect, App.tsx:49-74 *)

\* Lines 50-56: up to the await.
handleAssetSelect(asset) ==
    /\ ~renderError
    /\ selectedAsset' = asset
    /\ forecast' = Undefined
    /\ isLoadingChart' = TRUE
    /\ chartRequests' =
         BagAdd(chartRequests, [symbol |-> asset.symbol, timeframe |-> selectedTimeframe])
    /\ UNCHANGED <<selectedStrategy, selectedTimeframe, chartData, isLoadingForecast,
                   forecastRequests, priceData, received, chartError, renderError>>
    /\ UNCHANGED <<chartSource, exportVars, selectorVars, backtestVars>>
    /\ UNCHANGED <<showIndicators, backtestConfig>>

\* Lines 56-68 and 71-73: the request is answered with `wire`.
getHistoricalDataResolved(req, wire) ==
    /\ ~renderError
    /\ chartRequests[req] > 0
    /\ LET r1 == Alloc({chartData.ref})                \* the array api.ts:36 maps to
           r2 == Alloc({chartData.ref, r1})            \* the array App.tsx:58 maps to
           data == getHistoricalData(wire)
       IN  /\ received' = data
           /\ chartData' = Array(r2, ToChartData(data))
           /\ priceData' = Array(r1, InputAfterMap(data, 0))
    /\ isLoadingChart' = FALSE
    /\ chartError' = FALSE
    /\ chartRequests' = BagRemove(chartRequests, req)
    /\ UNCHANGED <<selectedAsset, selectedStrategy, selectedTimeframe, forecast,
                   isLoadingForecast, forecastRequests, renderError>>
    /\ UNCHANGED <<exportVars, selectorVars, backtestVars>>
    /\ UNCHANGED <<showIndicators, searchVars, backtestConfig>>

\* Lines 69-73: the request fails.
getHistoricalDataRejected(req) ==
    /\ ~renderError
    /\ chartRequests[req] > 0
    /\ chartError' = TRUE
    /\ isLoadingChart' = FALSE
    /\ chartRequests' = BagRemove(chartRequests, req)
    /\ UNCHANGED <<selectedAsset, selectedStrategy, selectedTimeframe, forecast, chartData,
                   isLoadingForecast, forecastRequests, priceData, received, renderError>>
    /\ UNCHANGED <<chartSource, exportVars, selectorVars, backtestVars>>
    /\ UNCHANGED <<showIndicators, searchVars, backtestConfig>>

\* App.tsx:181: a timeframe button.
setSelectedTimeframe(tf) ==
    /\ ~renderError
    /\ selectedTimeframe' = tf
    /\ UNCHANGED <<selectedAsset, selectedStrategy, forecast, chartData, isLoadingForecast,
                   isLoadingChart, chartRequests, forecastRequests, priceData, received,
                   chartError, renderError>>
    /\ UNCHANGED <<chartSource, exportVars, selectorVars, backtestVars>>
    /\ UNCHANGED <<showIndicators, searchVars, backtestConfig>>

\* App.tsx:233-244 with TradingChart.tsx:100-110: what the chart is given to draw.
TradingChartMemo ==
    IF ~isLoadingChart /\ Len(chartData.items) > 0
    THEN Some(TradingChartData(chartData.items))
    ELSE Undefined

-----------------------------------------------------------------------------
(* The forecast engine behind POST /forecast (specification sections 4.3, 4.4) *)

Strategies ==
    { [id |-> "momentum", name |-> "Long Momentum", type |-> "equity",
       riskLevel |-> "medium"],
      [id |-> "breakout", name |-> "Crypto Breakout", type |-> "crypto",
       riskLevel |-> "high"] }

NoStrategy == [id |-> "", name |-> "", type |-> "none", riskLevel |-> "none"]

Null == <<>>

Clamp(x, lo, hi) == Max(lo, Min(x, hi))

\* Signal Blender: equal weights on the rule signal and the ML signal, clamped.
BlendConfidence(ruleStrength, mlScore) ==
    Clamp((ruleStrength + mlScore) \div 2, 0, 100)

\* Reward:risk is null when the implied risk is zero.
RewardRiskRatio(reward, risk) ==
    IF risk = 0 THEN Null ELSE Some(Quotient(reward, risk))

\* What the engine is given besides the request: the rule signal, the ML score
\* (which may fall outside 0..100), the implied risk, the strategy's bounds.
Signals ==
    [ruleStrength : {0, 100},
     mlScore : {0 - 100 * MaxOvershoot, 20, 100 + 200 * MaxOvershoot},
     risk : 0..MaxRisk,
     withinBounds : BOOLEAN]

\* Forecast Generator: valid only if a rule fired and the bounds are respected;
\* entry levels exist exactly when the forecast is valid.
ForecastEngine(req, signal) ==
    LET valid == signal.ruleStrength > 0 /\ signal.withinBounds
    IN  [strategy |-> CHOOSE st \in Strategies : st.id = req.strategy_id,
         asset |-> CHOOSE a \in Assets : a.symbol = req.symbol,
         isValid |-> valid,
         confidence |-> BlendConfidence(signal.ruleStrength, signal.mlScore),
         rewardRiskRatio |-> RewardRiskRatio(3, signal.risk),
         entryPoints |-> IF valid THEN <<101>> ELSE <<>>]

-----------------------------------------------------------------------------
(* forecastService.generateForecast, api.ts:64-76 *)

ForecastRequestKinds ==
    [symbol : {a.symbol : a \in Assets},
     strategy_id : {st.id : st \in Strategies},
     timeframe : TimeFrames]

\* The body api.post sends (api.ts:70-74).
ForecastRequest(symbol, strategyId, timeframe) ==
    [symbol |-> symbol, strategy_id |-> strategyId, timeframe |-> timeframe]

\* return response.data
generateForecastAsPercent(response) ==
    [response.data EXCEPT !.confidence = @ * 100]
generateForecastNoEntries(response) ==
    [response.data EXCEPT !.entryPoints = <<>>]
generateForecast(response) == response.data

(* ForecastResult.tsx:29-214: rendering the card of a forecast *)

\* Line 128: forecast.rewardRiskRatio.toFixed(2) throws a TypeError on null.
ForecastResultThrows(f) == f.rewardRiskRatio = Null

\* Lines 83-88: the confidence badge.
ConfidenceBadge(f) ==
    IF f.confidence >= 70 THEN "HIGH" ELSE IF f.confidence >= 50 THEN "MEDIUM" ELSE "LOW"

-----------------------------------------------------------------------------
(* handleStrategySelect, App.tsx:76-79 *)

handleStrategySelect(strategy) ==
    /\ ~renderError
    /\ selectedStrategy' = strategy
    /\ forecast' = Undefined
    /\ UNCHANGED <<selectedAsset, selectedTimeframe, chartData, isLoadingForecast,
                   isLoadingChart, chartRequests, forecastRequests, priceData, received,
                   chartError, renderError>>
    /\ UNCHANGED <<chartSource, exportVars, selectorVars, backtestVars>>
    /\ UNCHANGED <<showIndicators, searchVars, backtestConfig>>

(* handleGenerateForecast, App.tsx:81-97 *)

\* Lines 82-90: up to the await.
handleGenerateForecastDefaultTimeframe ==
    /\ ~renderError
    /\ IF selectedAsset = NoAsset \/ selectedStrategy = NoStrategy
       THEN UNCHANGED <<isLoadingForecast, forecastRequests>>
       ELSE /\ isLoadingForecast' = TRUE
            /\ forecastRequests' =
                 BagAdd(forecastRequests,
                        ForecastRequest(selectedAsset.symbol, selectedStrategy.id, "1d"))
    /\ UNCHANGED <<selectedAsset, selectedStrategy, selectedTimeframe, forecast, chartData,
                   isLoadingChart, chartRequests, priceData, received, chartError,
                   renderError>>
    /\ UNCHANGED <<chartSource, exportVars, selectorVars, backtestVars>>
    /\ UNCHANGED <<showIndicators, searchVars, backtestConfig>>
handleGenerateForecast ==
    /\ ~renderError
    /\ IF selectedAsset = NoAsset \/ selectedStrategy = NoStrategy
       THEN UNCHANGED <<isLoadingForecast, forecastRequests>>
       ELSE /\ isLoadingForecast' = TRUE
            /\ forecastRequests' =
                 BagAdd(forecastRequests,
                        ForecastRequest(selectedAsset.symbol, selectedStrategy.id,
                                        selectedTimeframe))
    /\ UNCHANGED <<selectedAsset, selectedStrategy, selectedTimeframe, forecast, chartData,
                   isLoadingChart, chartRequests, priceData, received, chartError,
                   renderError>>
    /\ UNCHANGED <<chartSource, exportVars, selectorVars, backtestVars>>
    /\ UNCHANGED <<showIndicators, searchVars, backtestConfig>>

\* Lines 91 and 94-96: the request is answered; the card of the new forecast renders.
generateForecastResolved(req, response) ==
    /\ ~renderError
    /\ forecastRequests[req] > 0
    /\ forecast' = Some(generateForecast(response))
    /\ renderError' = ForecastResultThrows(forecast'[1])
    /\ isLoadingForecast' = FALSE
    /\ forecastRequests' = BagRemove(forecastRequests, req)
    /\ UNCHANGED <<selectedAsset, selectedStrategy, selectedTimeframe, chartData,
                   isLoadingChart, chartRequests, priceData, received, chartError>>
    /\ UNCHANGED <<chartSource, exportVars, selectorVars, backtestVars>>
    /\ UNCHANGED <<showIndicators, searchVars, backtestConfig>>

generateForecastRejectedKeepsLoading(req) ==
    /\ ~renderError
    /\ forecastRequests[req] > 0
    /\ forecastRequests' = BagRemove(forecastRequests, req)
    /\ UNCHANGED <<selectedAsset, selectedStrategy, selectedTimeframe, forecast, chartData,
                   isLoadingForecast, isLoadingChart, chartRequests, priceData, received,
                   chartError, renderError>>
    /\ UNCHANGED <<chartSource, exportVars, selectorVars, backtestVars>>
    /\ UNCHANGED <<showIndicators, searchVars, backtestConfig>>

\* Lines 92-96: the request fails.
generateForecastRejected(req) ==
    /\ ~renderError
    /\ forecastRequests[req] > 0
    /\ isLoadingForecast' = FALSE
    /\ forecastRequests' = BagRemove(forecastRequests, req)
    /\ UNCHANGED <<selectedAsset, selectedStrategy, selectedTimeframe, forecast, chartData,
                   isLoadingChart, chartRequests, priceData, received, chartError,
                   renderError>>
    /\ UNCHANGED <<chartSource, exportVars, selectorVars, backtestVars>>
    /\ UNCHANGED <<showIndicators, searchVars, backtestConfig>>

\* App.tsx:192: the Generate Forecast button is enabled.
GenerateForecastEnabled ==
    /\ selectedAsset # NoAsset
    /\ selectedStrategy # NoStrategy
    /\ ~isLoadingForecast

-----------------------------------------------------------------------------
(* The backtest simulator behind POST /backtest (specification section 4.5) *)

Runs == {1, 2}                      \* callers of runBacktest that may overlap
Closes == {1, 2, 3}                 \* closing prices of the backtested bars
BacktestSeries == UNION { [1..n -> Closes] : n \in 1..MaxBars }
Capitals == {100}

\* The timestamp of bar k of a series (daily bars).
BarTime(k) == 86400 * k

\* Entry and exit rules of a strategy, evaluated on bar k from the bars up to k:
\* momentum buys a rising close and sells a falling one; breakout buys a close
\* at or above 2 and holds for one bar.
EntryRule(strategyId, closes, k) ==
    IF strategyId = "momentum"
    THEN k > 1 /\ closes[k] > closes[k - 1]
    ELSE closes[k] >= 2
ExitRule(strategyId, closes, k, entryBar) ==
    IF strategyId = "momentum"
    THEN closes[k] < closes[k - 1]
    ELSE k >= entryBar + 1

\* The TradeResult of a long position of one unit, as the server serialises it.
Trade(closes, entryBar, exitBar, reason) ==
    [entryDate |-> BarTime(entryBar), exitDate |-> BarTime(exitBar),
     entryPrice |-> closes[entryBar], exitPrice |-> closes[exitBar],
     quantity |-> 1, pnl |-> closes[exitBar] - closes[entryBar],
     commission |-> 0, slippage |-> 0, type |-> "long", reason |-> reason]

RECURSIVE SumSeq(_)
SumSeq(s) == IF s = <<>> THEN 0 ELSE Head(s) + SumSeq(Tail(s))

\* Aggregate metrics of a finished run.
Aggregate(req, trades) ==
    LET total == Len(trades)
        pnl == [k \in 1..total |-> trades[k].pnl]
        wins == SumSeq([k \in 1..total |-> IF pnl[k] > 0 THEN 1 ELSE 0])
        grossProfit == SumSeq([k \in 1..total |-> Max(pnl[k], 0)])
        grossLoss == SumSeq([k \in 1..total |-> Max(0 - pnl[k], 0)])
    IN  [strategy |-> CHOOSE st \in Strategies : st.id = req.strategy_id,
         asset |-> CHOOSE a \in Assets : a.symbol = req.symbol,
         period |-> [start |-> req.start_date, end |-> req.end_date],
         totalReturn |-> Quotient(SumSeq(pnl), req.initial_capital),
         winRate |-> IF total = 0 THEN Quotient(0, 1) ELSE Quotient(wins, total),
         totalTrades |-> total,
         profitFactor |-> IF grossLoss = 0 THEN Null
                          ELSE Some(Quotient(grossProfit, grossLoss)),
         trades |-> trades]

\* A run slot before its first request.
IdleRun ==
    [phase |-> "idle", request |-> Undefined, series |-> <<>>, bar |-> 0,
     position |-> "Flat", open |-> {}, trades |-> <<>>, openAtEnd |-> FALSE,
     response |-> Undefined]

\* The trades a run's metrics are aggregated over.
TradesOfFirstRun(r) == sim[1].trades
TradesOfRun(r) == sim[r].trades

\* The server takes up a request with the price series of its symbol and range.
StartRun(r, series) ==
    /\ sim[r].phase = "requested"
    /\ sim' = [sim EXCEPT ![r].phase = "running", ![r].series = series]
    /\ UNCHANGED <<appVars, chartSource, exportVars, selectorVars, backtestResults>>
    /\ UNCHANGED <<showIndicators, searchVars, backtestConfig>>

\* One bar, in chronological order: entry rules while Flat, exit rules while Entered.
ProcessBar(r) ==
    LET run == sim[r]
        k == run.bar + 1
        strategyId == run.request[1].strategy_id
    IN  /\ run.phase = "running"
        /\ run.bar < Len(run.series)
        /\ run.position # "Closed"
        /\ sim' =
             IF run.position = "Flat"
             THEN IF EntryRule(strategyId, run.series, k)
                  THEN [sim EXCEPT ![r].bar = k, ![r].position = "Entered",
                                   ![r].open = @ \cup {k}]
                  ELSE [sim EXCEPT ![r].bar = k]
             ELSE LET e == CHOOSE e \in run.open : TRUE
                  IN  IF ExitRule(strategyId, run.series, k, e)
                      THEN [sim EXCEPT ![r].bar = k, ![r].position = "Closed",
                                       ![r].open = @ \ {e},
                                       ![r].trades =
                                          Append(@, Trade(run.series, e, k, "exit rule"))]
                      ELSE [sim EXCEPT ![r].bar = k]
        /\ UNCHANGED <<appVars, chartSource, exportVars, selectorVars, backtestResults>>
        /\ UNCHANGED <<showIndicators, searchVars, backtestConfig>>

\* After a close the run is Flat again until the next entry.
BackToFlat(r) ==
    /\ sim[r].phase = "running"
    /\ sim[r].position = "Closed"
    /\ sim' = [sim EXCEPT ![r].position = "Flat"]
    /\ UNCHANGED <<appVars, chartSource, exportVars, selectorVars, backtestResults>>
    /\ UNCHANGED <<showIndicators, searchVars, backtestConfig>>

\* Series end: a position still open is closed at the final bar's close.
ForceClose(r) ==
    LET run == sim[r]
        last == Len(run.series)
    IN  /\ run.phase = "running"
        /\ run.bar = last
        /\ run.position = "Entered"
        /\ LET e == CHOOSE e \in run.open : TRUE
           IN  sim' = [sim EXCEPT ![r].position = "Closed",
                                  ![r].open = @ \ {e},
                                  ![r].openAtEnd = TRUE,
                                  ![r].trades =
                                     Append(@, Trade(run.series, e, last, "period end"))]
        /\ UNCHANGED <<appVars, chartSource, exportVars, selectorVars, backtestResults>>
        /\ UNCHANGED <<showIndicators, searchVars, backtestConfig>>

\* The run is over: its BacktestResult is the response.
FinishRun(r) ==
    /\ sim[r].phase = "running"
    /\ sim[r].bar = Len(sim[r].series)
    /\ sim[r].position # "Entered"
    /\ sim' = [sim EXCEPT ![r].phase = "done",
                          ![r].response =
                             Some([data |-> Aggregate(sim[r].request[1], TradesOfRun(r))])]
    /\ UNCHANGED <<appVars, chartSource, exportVars, selectorVars, backtestResults>>
    /\ UNCHANGED <<showIndicators, searchVars, backtestConfig>>

-----------------------------------------------------------------------------
(* backtestService.runBacktest, api.ts:92-120 *)

\* Date.prototype.toISOString: the string is written as the instant it denotes.
ToISOString(d) == GetTime(d)

\* The body api.post sends (api.ts:100-106).
BacktestRequest(symbol, strategyId, startDate, endDate, initialCapital) ==
    [symbol |-> symbol, strategy_id |-> strategyId,
     start_date |-> ToISOString(startDate), end_date |-> ToISOString(endDate),
     initial_capital |-> initialCapital]

\* The period every caller of the model asks for.
BacktestPeriod == [start |-> NewDate(BarTime(0)), end |-> NewDate(BarTime(MaxBars))]

\* Lines 107-118: the response with its dates parsed.
runBacktestReversed(response) ==
    LET trades == response.data.trades
        n == Len(trades)
    IN  [period |-> [start |-> NewDate(response.data.period.start),
                     end |-> NewDate(response.data.period.end)],
         trades |-> [k \in 1..n |->
                       [entryDate |-> NewDate(trades[n + 1 - k].entryDate),
                        exitDate |-> NewDate(trades[n + 1 - k].exitDate)]
                       @@ trades[n + 1 - k]]] @@ response.data
runBacktestKeepsWinners(response) ==
    LET trades == SelectSeq(response.data.trades, LAMBDA t : t.pnl > 0)
    IN  [period |-> [start |-> NewDate(response.data.period.start),
                     end |-> NewDate(response.data.period.end)],
         trades |-> [k \in 1..Len(trades) |->
                       [entryDate |-> NewDate(trades[k].entryDate),
                        exitDate |-> NewDate(trades[k].exitDate)] @@ trades[k]]]
        @@ response.data
runBacktestExitFromEntry(response) ==
    LET trades == response.data.trades
    IN  [period |-> [start |-> NewDate(response.data.period.start),
                     end |-> NewDate(response.data.period.end)],
         trades |-> [k \in 1..Len(trades) |->
                       [entryDate |-> NewDate(trades[k].entryDate),
                        exitDate |-> NewDate(trades[k].entryDate)] @@ trades[k]]]
        @@ response.data
runBacktest(response) ==
    LET trades == response.data.trades
    IN  [period |-> [start |-> NewDate(response.data.period.start),
                     end |-> NewDate(response.data.period.end)],
         trades |-> [k \in 1..Len(trades) |->
                       [entryDate |-> NewDate(trades[k].entryDate),
                        exitDate |-> NewDate(trades[k].exitDate)] @@ trades[k]]]
        @@ response.data

\* Lines 99-106: caller r posts its request.
runBacktestCalled(r, symbol, strategyId, startDate, endDate, initialCapital) ==
    /\ sim[r].phase \in {"idle", "returned"}
    /\ sim' = [sim EXCEPT ![r] =
                 [IdleRun EXCEPT !.phase = "requested",
                                 !.request = Some(BacktestRequest(symbol, strategyId, startDate,
                                                                  endDate, initialCapital))]]
    /\ backtestResults' = [backtestResults EXCEPT ![r] = Undefined]
    /\ UNCHANGED <<appVars, chartSource, exportVars, selectorVars>>
    /\ UNCHANGED <<showIndicators, searchVars>>

\* Lines 107-118: the response arrives and the promise of caller r resolves.
runBacktestResolved(r) ==
    /\ sim[r].phase = "done"
    /\ backtestResults' = [backtestResults EXCEPT ![r] = Some(runBacktest(sim[r].response[1]))]
    /\ sim' = [sim EXCEPT ![r].phase = "returned"]
    /\ UNCHANGED <<appVars, chartSource, exportVars, selectorVars>>
    /\ UNCHANGED <<showIndicators, searchVars, backtestConfig>>

-----------------------------------------------------------------------------
(* exportService, api.ts:143-157, and handleExport, App.tsx:99-115 *)

ExportTypes == {"pdf", "csv"}

\* An export in flight: the endpoint posted to and the `type` its handler was
\* called with (the handler names the file after it when the blob arrives).
ExportRequestKinds == [endpoint : {"/export/pdf", "/export/csv"}, type : ExportTypes]

\* api.ts:144-149 and 151-156: the endpoint each service function posts to.
exportToPDF(data, type) == "/export/pdf"
exportToCSV(data, type) == "/export/csv"

\* What the server answers on an endpoint: a blob in that endpoint's format.
BlobOf(endpoint) == IF endpoint = "/export/pdf" THEN "pdf" ELSE "csv"

\* Lines 100-103: up to the await.
handleExport(type) ==
    /\ ~renderError
    /\ IF forecast = Undefined
       THEN UNCHANGED exportRequests
       ELSE exportRequests' =
              BagAdd(exportRequests,
                     [endpoint |-> exportToPDF(forecast[1], "forecast"), type |-> type])
    /\ UNCHANGED <<appVars, chartSource, download, selectorVars, backtestVars>>
    /\ UNCHANGED <<showIndicators, searchVars, backtestConfig>>

\* Lines 103-111: the blob arrives and is saved as forecast-<symbol>-<now>.<type>.
exportResolved(req) ==
    /\ ~renderError
    /\ exportRequests[req] > 0
    /\ download' = Some([extension |-> req.type, content |-> BlobOf(req.endpoint)])
    /\ exportRequests' = BagRemove(exportRequests, req)
    /\ UNCHANGED <<appVars, chartSource, selectorVars, backtestVars>>
    /\ UNCHANGED <<showIndicators, searchVars, backtestConfig>>

\* Lines 112-114: the request fails.
exportRejected(req) ==
    /\ ~renderError
    /\ exportRequests[req] > 0
    /\ exportRequests' = BagRemove(exportRequests, req)
    /\ UNCHANGED <<appVars, chartSource, download, selectorVars, backtestVars>>
    /\ UNCHANGED <<showIndicators, searchVars, backtestConfig>>

-----------------------------------------------------------------------------
(* StrategySelector, StrategySelector.tsx:52-192 *)

RiskLevels == {"low", "medium", "high"}

\* The strategies GET /strategies may list.
StrategyCatalog ==
    Strategies \cup
    { [id |-> "swing", name |-> "Swing Trade", type |-> "equity", riskLevel |-> "low"],
      [id |-> "covered-call", name |-> "Covered Call", type |-> "options",
       riskLevel |-> "low"] }

\* What GET /strategies may answer: lists of different strategies.
StrategyLists ==
    { list \in UNION { [1..n -> StrategyCatalog] : n \in 0..MaxStrategies } :
        \A i, j \in 1..Len(list) : i # j => list[i].id # list[j].id }

\* selectedAsset?.type
AssetTypeOf(asset) == IF asset = NoAsset THEN Undefined ELSE Some(asset.type)

\* strategyService.getStrategies (api.ts:52-56): the query its GET carries.
getStrategies(assetType) == [type |-> assetType]

StrategyRequestKinds ==
    { getStrategies(t) : t \in {Undefined} \cup {Some(a.type) : a \in Assets} }

\* Line 82.
strategyTypes == {"all", "equity", "options", "futures", "crypto"}

\* Lines 78-80: strategies.filter(...).
RECURSIVE FilterByTypeOnly(_, _)
FilterByTypeOnly(list, type) ==
    IF list = <<>> THEN <<>>
    ELSE (IF Head(list).type = type THEN <<Head(list)>> ELSE <<>>)
         \o FilterByTypeOnly(Tail(list), type)
RECURSIVE FilterByType(_, _)
FilterByType(list, type) ==
    IF list = <<>> THEN <<>>
    ELSE (IF type = "all" \/ Head(list).type = type THEN <<Head(list)>> ELSE <<>>)
         \o FilterByType(Tail(list), type)

filteredStrategies == FilterByType(strategies, selectedType)

\* Lines 61-76: the effect runs when selectedAsset has changed (and on mount),
\* up to the await.
loadStrategies ==
    /\ ~renderError
    /\ effectAsset # Some(selectedAsset)
    /\ effectAsset' = Some(selectedAsset)
    /\ isLoading' = TRUE
    /\ strategyRequests' =
         BagAdd(strategyRequests, getStrategies(AssetTypeOf(selectedAsset)))
    /\ UNCHANGED <<strategies, selectedType, strategiesSource>>
    /\ UNCHANGED <<appVars, chartSource, exportVars, backtestVars>>
    /\ UNCHANGED <<showIndicators, searchVars, backtestConfig>>

\* Lines 66-67 and 70-72: the request is answered with `data`.
getStrategiesResolved(req, data) ==
    /\ ~renderError
    /\ strategyRequests[req] > 0
    /\ strategies' = data
    /\ strategiesSource' = Some(req)
    /\ isLoading' = FALSE
    /\ strategyRequests' = BagRemove(strategyRequests, req)
    /\ UNCHANGED <<selectedType, effectAsset>>
    /\ UNCHANGED <<appVars, chartSource, exportVars, backtestVars>>
    /\ UNCHANGED <<showIndicators, searchVars, backtestConfig>>

\* Lines 68-72: the request fails.
getStrategiesRejected(req) ==
    /\ ~renderError
    /\ strategyRequests[req] > 0
    /\ isLoading' = FALSE
    /\ strategyRequests' = BagRemove(strategyRequests, req)
    /\ UNCHANGED <<strategies, selectedType, effectAsset, strategiesSource>>
    /\ UNCHANGED <<appVars, chartSource, exportVars, backtestVars>>
    /\ UNCHANGED <<showIndicators, searchVars, backtestConfig>>

\* Line 108: a filter button.
setSelectedType(type) ==
    /\ ~renderError
    /\ selectedType' = type
    /\ UNCHANGED <<strategies, isLoading, strategyRequests, effectAsset, strategiesSource>>
    /\ UNCHANGED <<appVars, chartSource, exportVars, backtestVars>>
    /\ UNCHANGED <<showIndicators, searchVars, backtestConfig>>

-----------------------------------------------------------------------------
(* Indicator toggles, App.tsx:38-45 and 217-226 *)

IndicatorKeys == {"sma20", "sma50", "rsi", "macd", "volume", "vwap"}

\* Lines 38-45: the initial value of showIndicators.
InitialIndicators ==
    [sma20 |-> TRUE, sma50 |-> TRUE, rsi |-> FALSE, macd |-> FALSE,
     volume |-> FALSE, vwap |-> TRUE]

ToggleIndicatorSetsOn(prev, key) == [prev EXCEPT ![key] = TRUE]

\* Line 222: prev => ({ ...prev, [key]: !prev[key] }).
ToggleIndicator(prev, key) == [k \in DOMAIN prev |-> IF k = key THEN ~prev[k] ELSE prev[k]]

\* Lines 218-225: the onClick of the button of one indicator.
setShowIndicators(key) ==
    /\ ~renderError
    /\ showIndicators' = ToggleIndicator(showIndicators, key)
    /\ UNCHANGED <<appVars, chartSource, exportVars, selectorVars, backtestVars>>
    /\ UNCHANGED <<searchVars, backtestConfig>>

-----------------------------------------------------------------------------
(* AssetSearch, StrategySelector.tsx:233-391 *)

\* A query is the sequence of its characters.
Queries == UNION {[1..n -> {"a", " "}] : n \in 0..MaxQueryLen}
EmptyQuery == <<>>

\* String.prototype.trim (line 246): white space is removed from both ends.
RECURSIVE TrimStart(_)
TrimStart(q) == IF q # <<>> /\ Head(q) = " " THEN TrimStart(Tail(q)) ELSE q
RECURSIVE TrimEnd(_)
TrimEnd(q) ==
    IF q # <<>> /\ q[Len(q)] = " " THEN TrimEnd(SubSeq(q, 1, Len(q) - 1)) ELSE q
Trim(q) == TrimEnd(TrimStart(q))

TooShortUntrimmed(query) == Len(query) < 2

\* Line 246: query.trim().length < 2.
TooShort(query) == Len(Trim(query)) < 2

\* api.ts:10-13: the request is identified by its q parameter.
searchAssets(query) == query

\* What the server can answer to a search.
SearchAnswers == {<<>>} \cup { <<a>> : a \in Assets }

\* Lines 245-265, the function handed to debounce, up to the await.
debouncedSearchBody(query) ==
    /\ lastSubmitted' = query
    /\ IF TooShort(query)
       THEN /\ searchResults' = <<>>
            /\ showResults' = FALSE
            /\ searchSource' = Some(query)
            /\ UNCHANGED <<searchLoading, searchRequests>>
       ELSE /\ searchLoading' = TRUE
            /\ searchRequests' = searchRequests (+) SetToBag({searchAssets(query)})
            /\ UNCHANGED <<searchResults, showResults, searchSource>>

\* Lines 244-265: the wait of the debounced function is over and it runs with
\* the arguments of its latest call.
debouncedSearchFires ==
    /\ ~renderError
    /\ debounceTimer # Undefined
    /\ debouncedSearchBody(debounceTimer[1])
    /\ debounceTimer' = Undefined
    /\ UNCHANGED searchQuery
    /\ UNCHANGED <<appVars, chartSource, exportVars, selectorVars, backtestVars>>
    /\ UNCHANGED <<showIndicators, backtestConfig>>

\* Lines 252-254 and 259-261: the search answered.
searchAssetsResolved(req, results) ==
    /\ ~renderError
    /\ BagIn(req, searchRequests)
    /\ searchRequests' = searchRequests (-) SetToBag({req})
    /\ searchResults' = results
    /\ showResults' = TRUE
    /\ searchLoading' = FALSE
    /\ searchSource' = Some(req)
    /\ UNCHANGED <<searchQuery, debounceTimer, lastSubmitted>>
    /\ UNCHANGED <<appVars, chartSource, exportVars, selectorVars, backtestVars>>
    /\ UNCHANGED <<showIndicators, backtestConfig>>

\* Lines 255-261: the search failed.
searchAssetsRejected(req) ==
    /\ ~renderError
    /\ BagIn(req, searchRequests)
    /\ searchRequests' = searchRequests (-) SetToBag({req})
    /\ searchResults' = <<>>
    /\ searchLoading' = FALSE
    /\ searchSource' = Some(req)
    /\ UNCHANGED <<searchQuery, showResults, debounceTimer, lastSubmitted>>
    /\ UNCHANGED <<appVars, chartSource, exportVars, selectorVars, backtestVars>>
    /\ UNCHANGED <<showIndicators, backtestConfig>>

\* Lines 267-269: the effect calls debouncedSearch when searchQuery changed,
\* which restarts the wait.
searchQueryEffect(query) ==
    debounceTimer' = IF query # searchQuery THEN Some(query) ELSE debounceTimer

\* Line 295: onChange of the input.
setSearchQuery(query) ==
    /\ ~renderError
    /\ searchQuery' = query
    /\ searchQueryEffect(query)
    /\ UNCHANGED <<searchResults, searchLoading, showResults, searchRequests,
                   searchSource, lastSubmitted>>
    /\ UNCHANGED <<appVars, chartSource, exportVars, selectorVars, backtestVars>>
    /\ UNCHANGED <<showIndicators, backtestConfig>>

\* Lines 271-275: AssetSearch's handleAssetSelect calls onAssetSelect, which
\* is App's handleAssetSelect (App.tsx:145).
AssetSearchSelect(asset) ==
    /\ handleAssetSelect(asset)
    /\ showResults' = FALSE
    /\ searchQuery' = EmptyQuery
    /\ searchQueryEffect(EmptyQuery)
    /\ UNCHANGED <<searchResults, searchLoading, searchRequests, searchSource,
                   lastSubmitted>>

-----------------------------------------------------------------------------
(* Initial state: App.tsx:31-45 *)

Init ==
    /\ selectedAsset = NoAsset
    /\ selectedStrategy = NoStrategy
    /\ selectedTimeframe = "1d"
    /\ forecast = Undefined
    /\ chartData = Array(1, <<>>)
    /\ isLoadingForecast = FALSE
    /\ isLoadingChart = FALSE
    /\ chartRequests = EmptyBagOver(ChartRequestKinds)
    /\ forecastRequests = EmptyBagOver(ForecastRequestKinds)
    /\ priceData = NoArray
    /\ received = <<>>
    /\ chartError = FALSE
    /\ renderError = FALSE
    /\ chartSource = Undefined
    /\ exportRequests = EmptyBagOver(ExportRequestKinds)
    /\ download = Undefined
    /\ strategies = <<>>
    /\ isLoading = FALSE
    /\ selectedType = "all"
    /\ strategyRequests = EmptyBagOver(StrategyRequestKinds)
    /\ effectAsset = Undefined
    /\ sim = [r \in Runs |-> IdleRun]
    /\ backtestResults = [r \in Runs |-> Undefined]
    /\ strategiesSource = Undefined
    /\ backtestConfig = [r \in Runs |-> Undefined]
    /\ showIndicators = InitialIndicators
    /\ searchQuery = EmptyQuery
    /\ searchResults = <<>>
    /\ searchLoading = FALSE
    /\ showResults = FALSE
    /\ searchRequests = EmptyBag
    /\ debounceTimer = Some(EmptyQuery)
    /\ searchSource = Undefined
    /\ lastSubmitted = EmptyQuery

-----------------------------------------------------------------------------
(* The indicator specification: one user loading one series after another   *)
(* from the full price feed.                                                *)

SelectAssetWhenIdle ==
    \E asset \in Assets :
        BagSize(chartRequests) = 0 /\ handleAssetSelect(asset) /\ UNCHANGED searchVars

FeedAnswers ==
    \E req \in ChartRequestKinds, wire \in PriceFeed :
        getHistoricalDataResolved(req, wire) /\ UNCHANGED chartSource

FeedFails ==
    \E req \in ChartRequestKinds : getHistoricalDataRejected(req)

NextIndicators ==
    \/ SelectAssetWhenIdle
    \/ FeedAnswers
    \/ FeedFails

SpecIndicators == Init /\ [][NextIndicators]_vars


-----------------------------------------------------------------------------
(* Claims about the indicators, checked under SpecIndicators *)

\* The sum of the closes of bars lo..hi (0-based, inclusive) of a series.
RECURSIVE WindowSum(_, _, _)
WindowSum(series, lo, hi) ==
    IF lo > hi THEN 0 ELSE series[hi + 1].close + WindowSum(series, lo, hi - 1)

SmaOf(indicators, n) == IF n = Sma20Period THEN indicators.sma20 ELSE indicators.sma50

Loaded == priceData # NoArray

\* C1: for n in {20, 50}, the SMA-n stored in chartData at every index i >= n-1 is
\* the arithmetic mean of the closes of bars i-n+1 .. i of the loaded series, and it
\* is undefined at every index i < n-1.
C1_SmaIsWindowMean ==
    \A n \in {Sma20Period, Sma50Period} :
        \A i \in 0..(Len(chartData.items) - 1) :
            LET v == SmaOf(chartData.items[i + 1].indicators, n)
            IN  IF i >= n - 1
                THEN /\ IsDefined(v)
                     /\ i < Len(received)
                     /\ v[1].num * n = WindowSum(received, i - n + 1, i) * v[1].den
                ELSE v = Undefined

\* A series of at least 50 bars that is not flat has been loaded, so both averages
\* are defined at its last bar.
C1_Witness ==
    /\ Loaded
    /\ Len(chartData.items) >= Sma50Period
    /\ IsDefined(chartData.items[Len(chartData.items)].indicators.sma50)
    /\ IsDefined(chartData.items[Len(chartData.items)].indicators.sma20)
    /\ \E k \in 2..Len(received) : received[k].close - received[k - 1].close > 1

\* The series with every bar after index i (0-based) replaced by other values.
PerturbAfter(series, i) ==
    [k \in 1..Len(series) |->
        IF k - 1 <= i THEN series[k]
        ELSE [series[k] EXCEPT !.close = @ + 7, !.open = @ + 5, !.high = @ + 9,
                               !.volume = @ + 1, !.vwap = Some(1)]]

\* C2: no indicator value at bar i depends on a bar after i: recomputing the
\* indicators on a series that agrees with the loaded one on bars 0..i and differs
\* on every later bar gives the values chartData holds for bars 0..i.
C2_NoLookahead ==
    \A i \in 0..(Len(received) - 1) :
        LET other == PerturbAfter(received, i)
        IN  \A j \in 0..i :
                /\ j < Len(chartData.items)
                /\ Indicators(other, j) = chartData.items[j + 1].indicators

\* A bar with a defined average and a later bar after it.
C2_Witness ==
    /\ Loaded
    /\ Len(chartData.items) > Sma50Period
    /\ IsDefined(chartData.items[Sma50Period].indicators.sma50)
    /\ PerturbAfter(received, Sma50Period - 1) # received

OhlcvOf(bar) ==
    <<bar.open, bar.high, bar.low, bar.close, bar.volume>>

\* C3: the indicator sequence has the length of the input series (0 included) and
\* element i carries bar i's own timestamp and OHLCV values, in handleAssetSelect's
\* chartData and in the sequence TradingChart derives from it.
C3_AlignedWithInput ==
    /\ Len(chartData.items) = Len(received)
    /\ \A k \in 1..Len(chartData.items) :
          /\ k <= Len(received)
          /\ chartData.items[k].timestamp = received[k].timestamp
          /\ OhlcvOf(chartData.items[k]) = OhlcvOf(received[k])
    /\ IsDefined(TradingChartMemo) =>
          /\ Len(TradingChartMemo[1]) = Len(received)
          /\ \A k \in 1..Len(TradingChartMemo[1]) :
                /\ TradingChartMemo[1][k].timestamp = GetTime(received[k].timestamp)
                /\ OhlcvOf(TradingChartMemo[1][k]) = OhlcvOf(received[k])

\* A series of more than 20 bars is loaded and drawn.
C3_Witness ==
    /\ Loaded
    /\ Len(received) > Sma20Period
    /\ IsDefined(TradingChartMemo)

\* C4 (as claimed): every indicator of a bar is undefined while the bar has fewer
\* bars of history than the indicator's lookback needs: SMA20 before bar 19, SMA50
\* before bar 49, RSI at bar 0 (no close-to-close change yet), MACD before bar 25.
C4_UndefinedUntilHistory ==
    \A i \in 0..(Len(chartData.items) - 1) :
        LET ind == chartData.items[i + 1].indicators
        IN  /\ i < Sma20Period - 1 => ind.sma20 = Undefined
            /\ i < Sma50Period - 1 => ind.sma50 = Undefined
            /\ i < 1 => ind.rsi = Undefined
            /\ i < MacdSlowPeriod - 1 => ind.macd = Undefined

\* Every close-to-close change of the n changes ending at bar i (0-based) is a gain.
AllGains(series, i, n) ==
    \A j \in (i - n + 1)..i : series[j + 1].close > series[j].close

\* C5 (as claimed): the RSI of a bar is 100 whenever every change inside the RSI
\* lookback ending at that bar is a gain, whatever the lookback n.
C5_RsiAllGains ==
    \A i \in 1..(Len(chartData.items) - 1) :
        \A n \in 1..i :
            AllGains(received, i, n) => chartData.items[i + 1].indicators.rsi = Some(100)

\* C6: computing the indicators leaves the input series as getHistoricalData
\* returned it (same length, same bars in the same order), and chartData is another
\* array than the input.
C6_InputUntouched ==
    Loaded =>
        /\ Len(priceData.items) = Len(received)
        /\ priceData.items = received
        /\ chartData.ref # priceData.ref

\* The handler has sliced a series of 50 bars or more.
C6_Witness ==
    /\ Loaded
    /\ Len(received) >= Sma50Period
    /\ IsDefined(chartData.items[Sma50Period].indicators.sma50)

\* C7 (as claimed): a series of fewer than 50 bars is refused: the load ends in the
\* error branch and chartData never holds a series that short.
C7_ShortSeriesRefused ==
    /\ (Loaded /\ Len(received) < Sma50Period) => chartError
    /\ Len(chartData.items) > 0 => Len(chartData.items) >= Sma50Period


-----------------------------------------------------------------------------
(* The application specification: every handler of TradingApp, requests may *)
(* overlap, the price feed answers with short series.                       *)

SelectAsset ==
    \E asset \in Assets :
        BagSize(chartRequests) < MaxInFlight /\ handleAssetSelect(asset)
                                             /\ UNCHANGED searchVars

SmallFeedAnswers ==
    \E req \in ChartRequestKinds, wire \in SmallFeed :
        getHistoricalDataResolved(req, wire) /\ UNCHANGED chartSource

ChooseTimeframe ==
    \E tf \in TimeFrames : setSelectedTimeframe(tf)

\* StrategySelector.tsx:84, 129: the strategy cards exist once an asset is selected.
SelectStrategy ==
    \E strategy \in Strategies :
        selectedAsset # NoAsset /\ handleStrategySelect(strategy)

ClickGenerateForecast ==
    GenerateForecastEnabled /\ handleGenerateForecast

ForecastAnswers ==
    \E req \in ForecastRequestKinds, signal \in Signals :
        generateForecastResolved(req, [data |-> ForecastEngine(req, signal)])

ForecastFails ==
    \E req \in ForecastRequestKinds : generateForecastRejected(req)

Next ==
    \/ SelectAsset
    \/ SmallFeedAnswers
    \/ FeedFails
    \/ ChooseTimeframe
    \/ SelectStrategy
    \/ ClickGenerateForecast
    \/ ForecastAnswers
    \/ ForecastFails

Spec == Init /\ [][Next]_vars


-----------------------------------------------------------------------------
(* Claims about the forecast held by the application, checked under Spec *)

\* C8: in every reachable state the confidence of the forecast held in application
\* state (the one the card renders) lies in the closed range [0, 100].
C8_ConfidenceInRange ==
    IsDefined(forecast) =>
        /\ forecast[1].confidence >= 0
        /\ forecast[1].confidence <= 100

\* A forecast whose blended score overshot 100 although no rule fired (or whose
\* bounds were broken) is held and rendered with confidence 100.
C8_Witness ==
    /\ IsDefined(forecast)
    /\ ~renderError
    /\ forecast[1].confidence = 100
    /\ ConfidenceBadge(forecast[1]) = "HIGH"
    /\ ~forecast[1].isValid

\* C9 (as claimed): a forecast whose implied risk is zero carries a null
\* reward:risk ratio, and the card of such a forecast renders without an error.
C9_NullRatioDisplayed ==
    (IsDefined(forecast) /\ forecast[1].rewardRiskRatio = Null) => ~renderError

\* C10: a forecast held in application state with isValid = true has a non-empty
\* entryPoints list.
C10_ValidHasEntryPoints ==
    (IsDefined(forecast) /\ forecast[1].isValid) => Len(forecast[1].entryPoints) > 0

\* A valid forecast is held and rendered.
C10_Witness ==
    /\ IsDefined(forecast)
    /\ ~renderError
    /\ forecast[1].isValid
    /\ forecast[1].entryPoints # <<>>
    /\ forecast[1].asset = selectedAsset

-----------------------------------------------------------------------------
(* The backtest specification: one caller running one backtest after another *)

CallBacktest(r) ==
    \E a \in Assets, st \in Strategies, capital \in Capitals :
        /\ runBacktestCalled(r, a.symbol, st.id, BacktestPeriod.start, BacktestPeriod.end,
                             capital)
        /\ UNCHANGED backtestConfig

ServerStarts(r) == \E series \in BacktestSeries : StartRun(r, series)

NextBacktest ==
    \/ CallBacktest(1)
    \/ ServerStarts(1)
    \/ ProcessBar(1)
    \/ BackToFlat(1)
    \/ ForceClose(1)
    \/ FinishRun(1)
    \/ runBacktestResolved(1)

SpecBacktest == Init /\ [][NextBacktest]_vars

\* The BacktestResult caller r holds, once runBacktest has returned it.
Returned(r) == backtestResults[r] # Undefined
ResultOf(r) == backtestResults[r][1]

PositionMoves ==
    { <<"Flat", "Entered">>, <<"Entered", "Closed">>, <<"Closed", "Flat">> }

\* C11: within one backtest run at most one position is open at any time; the
\* position state only moves Flat -> Entered -> Closed -> Flat; and in the ordered
\* trades of a returned BacktestResult no trade's entryDate precedes the exitDate
\* of the trade before it.
C11_OnePositionAtATime ==
    /\ [](\A r \in Runs :
            /\ Cardinality(sim[r].open) <= 1
            /\ (sim[r].position = "Entered") <=> (sim[r].open # {})
            /\ Returned(r) =>
                 \A k \in 2..Len(ResultOf(r).trades) :
                    ~(GetTime(ResultOf(r).trades[k].entryDate)
                        < GetTime(ResultOf(r).trades[k - 1].exitDate)))
    /\ [][\A r \in Runs :
            \/ sim'[r].position = sim[r].position
            \/ <<sim[r].position, sim'[r].position>> \in PositionMoves]_vars

\* A returned result with two trades at different times.
C11_Witness ==
    /\ Returned(1)
    /\ Len(ResultOf(1).trades) >= 2
    /\ GetTime(ResultOf(1).trades[1].exitDate) < GetTime(ResultOf(1).trades[2].exitDate)

C13_WinRate ==
    \A r \in Runs :
        Returned(r) =>
            LET res == ResultOf(r)
                wins == Cardinality({k \in 1..Len(res.trades) : res.trades[k].pnl > 0})
            IN  /\ res.totalTrades = Len(res.trades)
                /\ res.winRate.den # 0
                /\ res.winRate.num * res.totalTrades = wins * res.winRate.den
                /\ res.totalTrades = 0 => res.winRate.num = 0

\* A returned result with a winning trade and a trade that did not win.
C13_Witness ==
    /\ Returned(1)
    /\ \E k \in 1..Len(ResultOf(1).trades) : ResultOf(1).trades[k].pnl > 0
    /\ \E k \in 1..Len(ResultOf(1).trades) : ResultOf(1).trades[k].pnl <= 0

\* The server does not abandon a run at series end.
SpecBacktestFair == SpecBacktest /\ WF_vars(ForceClose(1))

NoOpenPositionAtEnd ==
    \A r \in Runs :
        /\ sim[r].phase \in {"done", "returned"} =>
              sim[r].position # "Entered" /\ sim[r].open = {}
        /\ Returned(r) /\ sim[r].openAtEnd =>
              LET trades == ResultOf(r).trades
                  last == Len(sim[r].series)
              IN  /\ trades # <<>>
                  /\ GetTime(trades[Len(trades)].exitDate) = BarTime(last)
                  /\ trades[Len(trades)].exitPrice = sim[r].series[last]
                  /\ trades[Len(trades)].reason = "period end"

OpenAfterLastBar(r) ==
    /\ sim[r].phase = "running"
    /\ sim[r].bar = Len(sim[r].series)
    /\ sim[r].position = "Entered"

ClosedAtFinalBar(r) ==
    /\ sim[r].position = "Closed"
    /\ sim[r].trades # <<>>
    /\ LET t == sim[r].trades[Len(sim[r].trades)]
       IN  /\ t.reason = "period end"
           /\ t.exitDate = BarTime(Len(sim[r].series))
           /\ t.exitPrice = sim[r].series[Len(sim[r].series)]

\* C14: a position still Entered when the last bar has been processed is
\* eventually closed at the final bar's close with reason "period end"; no
\* backtest run finishes with an open position, and the last trade of the
\* returned result then exits on the final bar.
C14_ClosedAtPeriodEnd ==
    /\ []NoOpenPositionAtEnd
    /\ OpenAfterLastBar(1) ~> ClosedAtFinalBar(1)

\* A returned run whose position was entered before the final bar and was still
\* open after it.
C14_Witness ==
    /\ Returned(1)
    /\ sim[1].openAtEnd
    /\ GetTime(ResultOf(1).trades[Len(ResultOf(1).trades)].entryDate)
          < BarTime(Len(sim[1].series))

-----------------------------------------------------------------------------
(* The paired backtest specification: two callers whose runs may overlap *)

PairSeries == { s \in BacktestSeries : Len(s) <= MaxPairBars }

ServerStartsPair(r) == \E series \in PairSeries : StartRun(r, series)

NextBacktestPair ==
    \E r \in Runs :
        \/ CallBacktest(r)
        \/ ServerStartsPair(r)
        \/ ProcessBar(r)
        \/ BackToFlat(r)
        \/ ForceClose(r)
        \/ FinishRun(r)
        \/ runBacktestResolved(r)

SpecBacktestPair == Init /\ [][NextBacktestPair]_vars

-----------------------------------------------------------------------------
(* The export specification: a user who gets a forecast and exports it *)

\* ForecastResult.tsx:189-209: the export buttons of the forecast card.
ClickExport ==
    /\ forecast # Undefined
    /\ BagSize(exportRequests) < MaxExports
    /\ \E type \in ExportTypes : handleExport(type)

ExportAnswers == \E req \in ExportRequestKinds : exportResolved(req)
ExportFails == \E req \in ExportRequestKinds : exportRejected(req)

NextExport ==
    \/ SelectAsset
    \/ SmallFeedAnswers
    \/ SelectStrategy
    \/ ClickGenerateForecast
    \/ ForecastAnswers
    \/ ClickExport
    \/ ExportAnswers
    \/ ExportFails

SpecExport == Init /\ [][NextExport]_vars

\* C16: an export of type 'csv' is requested from exportToCSV and one of type
\* 'pdf' from exportToPDF, so the content of a downloaded file matches its
\* extension.
C16_ExportMatchesType ==
    /\ \A req \in ExportRequestKinds :
          exportRequests[req] > 0 =>
             req.endpoint = (IF req.type = "csv" THEN exportToCSV(forecast, "forecast")
                             ELSE exportToPDF(forecast, "forecast"))
    /\ download # Undefined => download[1].content = download[1].extension

-----------------------------------------------------------------------------
(* The chart specification: loads that may overlap, with the request each     *)
(* answer belongs to recorded in chartSource                                 *)

SelectAssetAnyTime ==
    /\ BagSize(chartRequests) < MaxLoads
    /\ \E asset \in Assets : handleAssetSelect(asset)
    /\ UNCHANGED searchVars

LoadAnswers ==
    \E req \in ChartRequestKinds, wire \in SmallFeed :
        getHistoricalDataResolved(req, wire) /\ chartSource' = Some(req)

NextChart ==
    \/ SelectAssetAnyTime
    \/ LoadAnswers
    \/ FeedFails
    \/ ChooseTimeframe

SpecChart == Init /\ [][NextChart]_vars

\* C17: whenever an asset is selected and no load is in flight, chartData was
\* fetched with the currently selected timeframe.
C17_ChartFollowsTimeframe ==
    (/\ selectedAsset # NoAsset
     /\ BagSize(chartRequests) = 0
     /\ chartSource # Undefined)
    => chartSource[1].timeframe = selectedTimeframe

-----------------------------------------------------------------------------
(* The forecast-request specification: handleGenerateForecast may be invoked *)
(* in any state, whether or not its button is enabled                        *)

InvokeGenerateForecast ==
    /\ BagSize(forecastRequests) < MaxForecasts
    /\ handleGenerateForecast

\* The engine's answers when the ML score and the risk are unremarkable.
SteadySignals == { s \in Signals : s.mlScore = 20 /\ s.risk = 1 }

SteadyForecastAnswers ==
    \E req \in ForecastRequestKinds, signal \in SteadySignals :
        generateForecastResolved(req, [data |-> ForecastEngine(req, signal)])

NextForecast ==
    \/ SelectAsset
    \/ SmallFeedAnswers
    \/ ChooseTimeframe
    \/ SelectStrategy
    \/ InvokeGenerateForecast
    \/ SteadyForecastAnswers
    \/ ForecastFails

SpecForecast == Init /\ [][NextForecast]_vars

\* C18: a forecast request is issued only when both an asset and a strategy are
\* selected, and it carries exactly the selected asset's symbol, the selected
\* strategy's id and the selected timeframe; while either is unset no request
\* is sent and forecast and isLoadingForecast do not change.
C18_RequestNeedsSelection ==
    [][/\ BagSize(forecastRequests') > BagSize(forecastRequests) =>
            /\ selectedAsset # NoAsset
            /\ selectedStrategy # NoStrategy
            /\ forecastRequests' =
                 BagAdd(forecastRequests,
                        [symbol |-> selectedAsset.symbol,
                         strategy_id |-> selectedStrategy.id,
                         timeframe |-> selectedTimeframe])
       /\ (selectedAsset = NoAsset \/ selectedStrategy = NoStrategy) =>
            UNCHANGED <<forecastRequests, forecast, isLoadingForecast>>]_vars

\* A request is in flight for the second timeframe, chosen before the click.
C18_Witness ==
    /\ selectedTimeframe = "1h"
    /\ selectedAsset # NoAsset
    /\ selectedStrategy # NoStrategy
    /\ isLoadingForecast
    /\ forecastRequests[[symbol |-> selectedAsset.symbol,
                         strategy_id |-> selectedStrategy.id,
                         timeframe |-> "1h"]] = 1
    /\ BagSize(forecastRequests) = 1

-----------------------------------------------------------------------------
(* The selector specification: a user choosing assets, filters and strategies *)
(* while the chart loads stay outstanding                                    *)

\* The effect of the last render has run.
EffectsFlushed == effectAsset = Some(selectedAsset)

SelectAssetForStrategies == EffectsFlushed /\ SelectAssetAnyTime

StrategiesAnswer ==
    /\ EffectsFlushed
    /\ \E req \in StrategyRequestKinds, data \in StrategyLists :
          getStrategiesResolved(req, data)

StrategiesFail ==
    /\ EffectsFlushed
    /\ \E req \in StrategyRequestKinds : getStrategiesRejected(req)

ChooseType == EffectsFlushed /\ \E type \in strategyTypes : setSelectedType(type)

\* Lines 84, 113 and 117-126: the cards of the shown strategies.
ClickStrategyCard ==
    /\ EffectsFlushed
    /\ selectedAsset # NoAsset
    /\ ~isLoading
    /\ \E k \in 1..Len(filteredStrategies) : handleStrategySelect(filteredStrategies[k])

NextSelector ==
    \/ loadStrategies
    \/ SelectAssetForStrategies
    \/ StrategiesAnswer
    \/ StrategiesFail
    \/ ChooseType
    \/ ClickStrategyCard

SpecSelector == Init /\ [][NextSelector]_vars

\* C19: the strategy list can be filtered by risk level: for each of low,
\* medium and high the selector has a filter under which exactly the loaded
\* strategies of that riskLevel are shown.
C19_FilterByRiskLevel ==
    \A level \in RiskLevels :
        \E type \in strategyTypes :
            FilterByType(strategies, type)
               = SelectSeq(strategies, LAMBDA st : st.riskLevel = level)

\* C20: the strategies shown are exactly the loaded strategies whose type equals
\* the selected type filter, in loaded order, and all of them under 'all';
\* changing the filter changes neither the loaded strategies nor the selected
\* strategy.
C20_FilterByType ==
    /\ [](filteredStrategies =
            SelectSeq(strategies,
                      LAMBDA st : selectedType = "all" \/ st.type = selectedType))
    /\ [][selectedType' # selectedType =>
            /\ strategies' = strategies
            /\ selectedStrategy' = selectedStrategy]_vars

\* Two loaded strategies of different types, one of them selected, and a type
\* filter that hides the selected one.
C20_Witness ==
    /\ Len(strategies) = 2
    /\ strategies[1].type # strategies[2].type
    /\ selectedType = strategies[1].type
    /\ selectedStrategy = strategies[2]
    /\ filteredStrategies = <<strategies[1]>>

-----------------------------------------------------------------------------
(* Configured backtests: README.md:115-118 and api.ts:92-106 *)

Commissions == {0, 1}
Slippages == {0, 1}

\* README.md:117: the parameters of one run.
BacktestConfigs ==
    [capital : Capitals, commission : Commissions, slippage : Slippages]

\* A caller configures its run and starts it; runBacktest (api.ts:93-98) has
\* a parameter for the capital only.
ConfiguredBacktest(r) ==
    \E a \in Assets, st \in Strategies, cfg \in BacktestConfigs :
        /\ runBacktestCalled(r, a.symbol, st.id, BacktestPeriod.start, BacktestPeriod.end,
                             cfg.capital)
        /\ backtestConfig' = [backtestConfig EXCEPT ![r] = Some(cfg)]

NextBacktestConfig == \E r \in Runs : ConfiguredBacktest(r)

SpecBacktestConfig == Init /\ [][NextBacktestConfig]_vars

\* C21: the request of a run carries its capital, commission and slippage:
\* two runs whose configurations differ send different requests.
C21_RequestCarriesConfig ==
    \A r1, r2 \in Runs :
        /\ backtestConfig[r1] # Undefined
        /\ backtestConfig[r2] # Undefined
        /\ backtestConfig[r1] # backtestConfig[r2]
        => sim[r1].request # sim[r2].request

-----------------------------------------------------------------------------
(* Forecast responses and the selection, checked under Spec *)

\* C22: a forecast held in state was requested for the currently selected
\* asset and strategy: a response that arrives after the selection changed
\* is not stored.
C22_ForecastMatchesSelection ==
    forecast # Undefined =>
        /\ forecast[1].asset = selectedAsset
        /\ forecast[1].strategy = selectedStrategy

-----------------------------------------------------------------------------
(* Overlapping chart loads, checked under SpecChart *)

\* C23: whenever no historical-data request is outstanding, the data that
\* chartData holds is the data of the currently selected asset.
C23_ChartOfSelectedAsset ==
    BagSize(chartRequests) = 0 /\ chartSource # Undefined =>
        chartSource[1].symbol = selectedAsset.symbol

\* C24: isLoadingChart is true whenever at least one historical-data request
\* is outstanding.
C24_LoadingWhileOutstanding ==
    BagSize(chartRequests) > 0 => isLoadingChart

-----------------------------------------------------------------------------
(* The loading flag of forecast requests, checked under Spec *)

ForecastSettles == BagSize(forecastRequests') < BagSize(forecastRequests)
ForecastStarts == BagSize(forecastRequests') > BagSize(forecastRequests)

\* C25: a forecast request that settles, by success or by failure, leaves
\* isLoadingForecast false; while a request is outstanding no second request
\* is started; a request that fails leaves forecast unchanged.
C25_ForecastLoadingSettles ==
    /\ [][ForecastSettles => ~isLoadingForecast']_vars
    /\ [][BagSize(forecastRequests) > 0 => ~ForecastStarts]_vars
    /\ [][ForecastFails => forecast' = forecast]_vars

\* A request has succeeded, a second one has settled or was never started.
C25_Witness ==
    /\ forecast # Undefined
    /\ ~renderError
    /\ BagSize(forecastRequests) = 0
    /\ ~isLoadingForecast

-----------------------------------------------------------------------------
(* Forecast requests and the loaded strategies: the selector with the        *)
(* Generate Forecast button                                                  *)

NextSelectorForecast ==
    \/ loadStrategies
    \/ SelectAssetForStrategies
    \/ StrategiesAnswer
    \/ StrategiesFail
    \/ ChooseType
    \/ ClickStrategyCard
    \/ EffectsFlushed /\ ClickGenerateForecast
    \/ EffectsFlushed /\ ForecastFails

SpecSelectorForecast == Init /\ [][NextSelectorForecast]_vars

\* The strategies held are the answer to the request for the selected asset.
StrategiesOfSelectedAsset ==
    strategiesSource = Some(getStrategies(AssetTypeOf(selectedAsset)))

\* C26: a forecast request is issued only with a strategy of the strategy
\* list loaded for the currently selected asset.
C26_StrategyOfLoadedList ==
    [][ForecastStarts =>
         /\ StrategiesOfSelectedAsset
         /\ \E k \in 1..Len(strategies) : strategies[k] = selectedStrategy]_vars

-----------------------------------------------------------------------------
(* The asset search: typing, the debounced search, its answers and the       *)
(* selection of an asset from the results or from the popular assets, while  *)
(* the chart load of the selection stays outstanding                         *)

\* One edit of the input: a character appended, the last character deleted,
\* or the whole text deleted.
OneEdit(old, new) ==
    \/ Len(new) = Len(old) + 1 /\ SubSeq(new, 1, Len(old)) = old
    \/ Len(old) = Len(new) + 1 /\ SubSeq(old, 1, Len(new)) = new
    \/ old # EmptyQuery /\ new = EmptyQuery

\* Line 293: the input changes.
TypeQuery == \E query \in Queries : OneEdit(searchQuery, query) /\ setSearchQuery(query)

DebounceElapses == BagCardinality(searchRequests) < MaxSearches /\ debouncedSearchFires

SearchAnswered ==
    \E req \in BagToSet(searchRequests), results \in SearchAnswers :
        searchAssetsResolved(req, results)

SearchFails == \E req \in BagToSet(searchRequests) : searchAssetsRejected(req)

\* Lines 297-330: the buttons of the results.
ClickSearchResult ==
    /\ showResults
    /\ ~searchLoading
    /\ BagSize(chartRequests) = 0
    /\ \E k \in 1..Len(searchResults) : AssetSearchSelect(searchResults[k])

\* Lines 277-284 and 366-383: the buttons of the popular assets.
ClickPopularAsset ==
    /\ BagSize(chartRequests) = 0
    /\ \E asset \in Assets : AssetSearchSelect(asset)

NextSearch ==
    \/ TypeQuery
    \/ DebounceElapses
    \/ SearchAnswered
    \/ SearchFails
    \/ ClickSearchResult
    \/ ClickPopularAsset

SpecSearch == Init /\ [][NextSearch]_vars

\* C27: whenever no asset search is outstanding, the results shown belong to
\* the most recently submitted query: an older response that arrives later,
\* or after the query was cleared or shortened, neither replaces them nor
\* opens the list again.
C27_ResultsOfLatestQuery ==
    searchRequests = EmptyBag /\ showResults => searchSource = Some(lastSubmitted)

TrimmedBelowTwo(query) == Len(Trim(query)) < 2

ShortQueryProcessed ==
    /\ debounceTimer # Undefined
    /\ debounceTimer' = Undefined
    /\ TrimmedBelowTwo(debounceTimer[1])

\* C28: a query whose trimmed length is below 2 never issues a search
\* request; processing it empties searchResults, sets showResults false and
\* leaves isLoading unchanged.
C28_ShortQueryNotSearched ==
    /\ [](\A req \in BagToSet(searchRequests) : ~TrimmedBelowTwo(req))
    /\ [][ShortQueryProcessed =>
            /\ searchRequests' = searchRequests
            /\ searchResults' = <<>>
            /\ showResults' = FALSE
            /\ searchLoading' = searchLoading]_vars

\* A query of two characters whose trimmed length is 1 was processed while an
\* earlier search was still loading.
C28_Witness ==
    /\ debounceTimer = Undefined
    /\ Len(lastSubmitted) = 2
    /\ TrimmedBelowTwo(lastSubmitted)
    /\ searchLoading
    /\ searchResults = <<>>
    /\ ~showResults

-----------------------------------------------------------------------------
(* The indicator toggles, with asset selection and chart loads *)

ClickIndicator == \E key \in IndicatorKeys : setShowIndicators(key)

NextToggles ==
    \/ ClickIndicator
    \/ SelectAsset
    \/ SmallFeedAnswers
    \/ SelectStrategy

SpecToggles == Init /\ [][NextToggles]_vars

\* The flags of the indicators set to on.
IndicatorsOn(s) == {key \in IndicatorKeys : s[key]}

\* C29: toggling an indicator flips exactly its flag and leaves the other
\* five flags, the chart data, the forecast and the selections unchanged;
\* toggling it twice restores the flags; initially sma20, sma50 and vwap are
\* on and rsi, macd and volume are off.
C29_ToggleFlipsOneFlag ==
    /\ IndicatorsOn(showIndicators) = {"sma20", "sma50", "vwap"}
    /\ [](\A key \in IndicatorKeys :
            ToggleIndicator(ToggleIndicator(showIndicators, key), key) = showIndicators)
    /\ [][showIndicators' # showIndicators =>
            /\ \E key \in IndicatorKeys :
                  /\ showIndicators'[key] = ~showIndicators[key]
                  /\ \A other \in IndicatorKeys \ {key} :
                        showIndicators'[other] = showIndicators[other]
            /\ UNCHANGED <<chartData, forecast, selectedAsset, selectedStrategy,
                           selectedTimeframe>>]_vars

\* rsi was toggled on and vwap off while the chart of an asset is shown.
C29_Witness ==
    /\ IndicatorsOn(showIndicators) = {"sma20", "sma50", "rsi"}
    /\ selectedAsset # NoAsset
    /\ chartData.items # <<>>

=============================================================================
